---- MODULE Spec2Model ----
(***************************************************************************)
(* Model of the calculators of the Critical-Mineral-Separation benchmark   *)
(* and of the scripts that use them:                                       *)
(*   calculate_theoretical_stages, main    (verify_ree_selectivity.py)     *)
(*   calculate_relative_lifetime,                                          *)
(*   binding_energy_to_lifetime_extension  (verify_pfas_binding.py)        *)
(*   kremser_stages, main                  (generate_all_charts.py)        *)
(*                                                                         *)
(* Python floats are modelled as a decimal floating-point format with      *)
(* Digits significant digits, exponents bounded by ExpRange, gradual       *)
(* underflow, round-half-even, +/-inf and nan.  The arithmetic operators   *)
(* round the exact result once, as IEEE-754 arithmetic does; the format is *)
(* a scaled-down binary64 (17 significant digits, exponent range 308).     *)
(***************************************************************************)
EXTENDS Integers, Sequences, FiniteSets, TLC

VARIABLES call, outcome, pc, dir_exists, files, figures, report, called,
          makedirs_calls

\* the state of a run of a main: its position, whether the output directory
\* exists, the files written, the paths main has collected, what its report
\* lists, the figure generators it has called, in order, and the number of
\* os.makedirs calls that have succeeded
run == <<pc, dir_exists, files, figures, report, called, makedirs_calls>>

vars ==
    <<call, outcome, pc, dir_exists, files, figures, report, called,
      makedirs_calls>>

(***************************************************************************)
(* The float format.                                                       *)
(***************************************************************************)
\* significant decimal digits of a float
Digits == 3
\* the largest finite float is just below 10^(ExpRange+1), the smallest
\* normal float is 10^(-ExpRange)
ExpRange == 15

EMin == 0 - ExpRange - (Digits - 1)
EMax == ExpRange - (Digits - 1)

RECURSIVE Pow10(_)
Pow10(n) == IF n <= 0 THEN 1 ELSE 10 * Pow10(n - 1)

RECURSIVE NumDigits(_)
NumDigits(a) == IF a < 10 THEN 1 ELSE 1 + NumDigits(a \div 10)

IAbs(x) == IF x < 0 THEN 0 - x ELSE x
ISgn(x) == IF x < 0 THEN 0 - 1 ELSE IF x = 0 THEN 0 ELSE 1
IMax(x, y) == IF x >= y THEN x ELSE y
IMin(x, y) == IF x <= y THEN x ELSE y

\* a float is [k, m, e]: the finite value m * 10^e, or an infinity of sign m,
\* or nan
Fin(m, e) == [k |-> "fin", m |-> m, e |-> e]
Inf(s) == [k |-> "inf", m |-> s, e |-> 0]
NaN == [k |-> "nan", m |-> 0, e |-> 0]
Zero == Fin(0, EMin)

IsNaN(x) == x.k = "nan"
IsInf(x) == x.k = "inf"
IsFin(x) == x.k = "fin"
IsZero(x) == x.k = "fin" /\ x.m = 0

\* a >= 0 with its k lowest decimal digits dropped, round-half-even
RoundHalfEven(a, k) ==
    IF k <= 0 THEN a
    ELSE IF k > 9 THEN 0
    ELSE LET p == Pow10(k)
             q == a \div p
             r == a % p
             half == p \div 2
         IN IF r > half \/ (r = half /\ q % 2 = 1) THEN q + 1 ELSE q

\* the float nearest to the exact value m * 10^e
Round(m, e) ==
    IF m = 0 THEN Zero
    ELSE LET a == IAbs(m)
             d == NumDigits(a)
             drop == IMax(d - Digits, EMin - e)
         IN IF drop > 0
            THEN LET q == RoundHalfEven(a, drop)
                     carry == q = Pow10(Digits)
                     q2 == IF carry THEN Pow10(Digits - 1) ELSE q
                     e2 == IF carry THEN e + drop + 1 ELSE e + drop
                 IN IF q = 0 THEN Zero
                    ELSE IF e2 > EMax THEN Inf(ISgn(m))
                    ELSE Fin(ISgn(m) * q2, e2)
            ELSE LET up == IMin(Digits - d, e - EMin)
                 IN IF e - up > EMax THEN Inf(ISgn(m))
                    ELSE Fin(m * Pow10(up), e - up)

\* a decimal literal of the source text, m * 10^e, read as a float
Lit(m, e) == Round(m, e)

One == Lit(1, 0)

FNeg(x) == IF IsNaN(x) THEN NaN ELSE [x EXCEPT !.m = 0 - x.m]

\* abs()
FAbs(x) == IF IsNaN(x) THEN NaN ELSE [x EXCEPT !.m = IAbs(x.m)]

\* x < y; every comparison with nan is false
FLt(x, y) ==
    IF IsNaN(x) \/ IsNaN(y) THEN FALSE
    ELSE IF IsInf(x) THEN x.m < 0 /\ ~(IsInf(y) /\ y.m < 0)
    ELSE IF IsInf(y) THEN y.m > 0
    ELSE IF ISgn(x.m) # ISgn(y.m) THEN ISgn(x.m) < ISgn(y.m)
    ELSE IF x.m >= 0 THEN x.e < y.e \/ (x.e = y.e /\ x.m < y.m)
    ELSE y.e < x.e \/ (x.e = y.e /\ x.m < y.m)

FEq(x, y) == ~IsNaN(x) /\ ~IsNaN(y) /\ x = y
FLe(x, y) == FLt(x, y) \/ FEq(x, y)

\* x * y
FMul(x, y) ==
    IF IsNaN(x) \/ IsNaN(y) THEN NaN
    ELSE IF IsInf(x) \/ IsInf(y)
         THEN IF x.m = 0 \/ y.m = 0 THEN NaN ELSE Inf(ISgn(x.m) * ISgn(y.m))
    ELSE Round(x.m * y.m, x.e + y.e)

\* the sum of two finite floats, x.e >= y.e
AddFin(x, y) ==
    IF x.m = 0 THEN y
    ELSE IF y.m = 0 THEN x
    ELSE IF x.e - y.e <= Digits + 1
         THEN Round(x.m * Pow10(x.e - y.e) + y.m, y.e)
    ELSE Round(x.m * Pow10(Digits + 1) + ISgn(y.m), x.e - (Digits + 1))

\* x + y
FAdd(x, y) ==
    IF IsNaN(x) \/ IsNaN(y) THEN NaN
    ELSE IF IsInf(x) THEN (IF IsInf(y) /\ y.m # x.m THEN NaN ELSE x)
    ELSE IF IsInf(y) THEN y
    ELSE IF x.e >= y.e THEN AddFin(x, y) ELSE AddFin(y, x)

\* x - y
FSub(x, y) == FAdd(x, FNeg(y))

\* the quotient of two finite floats, y nonzero
DivFin(x, y) ==
    IF x.m = 0 THEN Zero
    ELSE LET an == IAbs(x.m)
             bn == IAbs(y.m)
             ka == 9 - NumDigits(an)
             kb == Digits - NumDigits(bn)
             n == an * Pow10(ka)
             d == bn * Pow10(kb)
             q == n \div d
             st == IF n % d = 0 THEN 0 ELSE 1
         IN Round(ISgn(x.m) * ISgn(y.m) * (q * 10 + st),
                  (x.e - ka) - (y.e - kb) - 1)

\* x / y of two floats where y is not zero
FDiv(x, y) ==
    IF IsNaN(x) \/ IsNaN(y) THEN NaN
    ELSE IF IsInf(x) THEN (IF IsInf(y) THEN NaN ELSE Inf(x.m * ISgn(y.m)))
    ELSE IF IsInf(y) THEN Zero
    ELSE DivFin(x, y)

\* x / y on numpy.float64: a zero divisor gives inf or nan, with a warning
NpDiv(x, y) ==
    IF IsZero(y)
    THEN (IF IsNaN(x) \/ IsZero(x) THEN NaN
          ELSE Inf(ISgn(x.m)))
    ELSE FDiv(x, y)

(***************************************************************************)
(* numpy.log and numpy.exp.  LnTab[k+1] is ln(1 + 10^-k) * 10^8 for        *)
(* k = 0..4, LnTab[6] is ln(10) * 10^7.                                    *)
(***************************************************************************)
LnTab == <<69314718, 9531018, 995033, 99950, 10000, 23025851>>

\* ln(U / P0) * 10^8 + acc, for 10^8 <= P <= U < 10^9
RECURSIVE LnMant(_, _, _, _)
LnMant(U, P, k, acc) ==
    IF k > 4 THEN acc + ((U - P) * 10000) \div (P \div 10000)
    ELSE LET P2 == P + P \div Pow10(k)
         IN IF P2 <= U THEN LnMant(U, P2, k, acc + LnTab[k + 1])
            ELSE LnMant(U, P, k + 1, acc)

\* numpy.log
Ln(x) ==
    IF IsNaN(x) THEN NaN
    ELSE IF IsInf(x) THEN (IF x.m > 0 THEN x ELSE NaN)
    ELSE IF x.m < 0 THEN NaN
    ELSE IF x.m = 0 THEN Inf(0 - 1)
    ELSE LET d == NumDigits(x.m)
             U == x.m * Pow10(9 - d)
             E == x.e + d - 1
             L8 == LnMant(U, Pow10(8), 0, 0)
         IN Round(E * LnTab[6] + (L8 + 5) \div 10, 0 - 7)

\* exp(R / 10^8) * P, for 0 <= R < ln(10) * 10^8
RECURSIVE ExpMant(_, _, _)
ExpMant(R, P, k) ==
    IF k > 4 THEN P + ((P \div 10000) * R) \div 10000
    ELSE IF R >= LnTab[k + 1]
         THEN ExpMant(R - LnTab[k + 1], P + P \div Pow10(k), k)
    ELSE ExpMant(R, P, k + 1)

\* numpy.exp
Exp(y) ==
    IF IsNaN(y) THEN NaN
    ELSE IF IsInf(y) THEN (IF y.m > 0 THEN y ELSE Zero)
    ELSE IF y.m = 0 THEN One
    ELSE IF y.e + NumDigits(IAbs(y.m)) - 1 >= 2
         THEN (IF y.m > 0 THEN Inf(1) ELSE Zero)
    ELSE LET Y7 == IF y.e + 7 >= 0 THEN y.m * Pow10(y.e + 7)
                   ELSE ISgn(y.m) * RoundHalfEven(IAbs(y.m), 0 - (y.e + 7))
             q == IF Y7 >= 0 THEN Y7 \div LnTab[6]
                  ELSE 0 - ((LnTab[6] - 1 - Y7) \div LnTab[6])
             R8 == (Y7 - q * LnTab[6]) * 10
         IN Round(ExpMant(R8, Pow10(8), 0), q - 8)

(***************************************************************************)
(* What a call does: it returns a value or raises.  printed is the number  *)
(* of lines the call wrote to standard output, shown the numbers that the  *)
(* message of the raised error states, as decimal numerals.                *)
(***************************************************************************)
NoValue == [k |-> "none", m |-> 0, e |-> 0]
Return(v, lines) == [kind |-> "return", err |-> "", shown |-> <<>>, value |-> v, printed |-> lines]
Raise(exc, what, nums) == [kind |-> exc, err |-> what, shown |-> nums, value |-> NoValue, printed |-> 0]

\* the number of trailing zeros of a > 0
RECURSIVE TrailingZeros(_)
TrailingZeros(a) == IF a % 10 # 0 THEN 0 ELSE 1 + TrailingZeros(a \div 10)

\* a decimal numeral is [k, m, e] as a float is, with any number of digits
\* format(x, ".<places>f"): x to that many decimal places; "inf", "-inf"
\* and "nan" as they are
Fixed(x, places) ==
    IF ~IsFin(x) THEN x
    ELSE IF x.e >= 0 - places THEN x
    ELSE Fin(ISgn(x.m) * RoundHalfEven(IAbs(x.m), 0 - places - x.e),
             0 - places)

\* format(x, ".4f")
Fixed4(x) == Fixed(x, 4)

\* repr(x), which an f-string applies to a float without a format: the
\* shortest digits that read back as x
Repr(x) ==
    IF ~IsFin(x) \/ x.m = 0 THEN x
    ELSE LET z == TrailingZeros(IAbs(x.m))
         IN Fin(x.m \div Pow10(z), x.e + z)

(***************************************************************************)
(* verify_ree_selectivity.py: calculate_theoretical_stages                 *)
(***************************************************************************)
\* mutant: the boundary beta = 1.0 is let through
beta_invalid_strict(beta) == FLt(beta, Lit(10, 0 - 1))

\* if beta <= 1.0
beta_invalid(beta) == FLe(beta, Lit(10, 0 - 1))

\* mutant: feed_purity = target_purity is let through
purity_invalid_weak(feed_purity, target_purity) ==
    ~(FLt(Lit(0, 0), feed_purity) /\ FLe(feed_purity, target_purity)
      /\ FLt(target_purity, Lit(1, 0)))

\* if not (0 < feed_purity < target_purity < 1)
purity_invalid(feed_purity, target_purity) ==
    ~(FLt(Lit(0, 0), feed_purity) /\ FLt(feed_purity, target_purity)
      /\ FLt(target_purity, Lit(1, 0)))

\* f"Got β = {beta:.4f}"
beta_message(beta) == <<Fixed4(beta)>>

\* mutant: the two purities are stated in the other order
purity_message_swapped(feed_purity, target_purity) ==
    <<Repr(target_purity), Repr(feed_purity)>>

\* f"Got feed={feed_purity}, target={target_purity}"
purity_message(feed_purity, target_purity) ==
    <<Repr(feed_purity), Repr(target_purity)>>

\* mutant: the dividend without its (1 - feed_purity) factor
sep_numerator_no_complement(target_purity, feed_purity) ==
    FMul(target_purity, feed_purity)

\* the dividend and the divisor of separation_degree
sep_numerator(target_purity, feed_purity) ==
    FMul(target_purity, FSub(Lit(10, 0 - 1), feed_purity))

sep_denominator(target_purity, feed_purity) ==
    FMul(feed_purity, FSub(Lit(10, 0 - 1), target_purity))

\* mutant: the divisor is beta, not its logarithm
kremser_no_log_beta(separation_degree, beta) ==
    NpDiv(Ln(separation_degree), beta)

\* N = np.log(separation_degree) / np.log(beta)
kremser(separation_degree, beta) == NpDiv(Ln(separation_degree), Ln(beta))

\* mutant: the calculation details are printed whether asked for or not
verbose_lines_always(verbose) == 8

\* if verbose: the eight print calls of the calculation details
verbose_lines(verbose) == IF verbose THEN 8 ELSE 0

calculate_theoretical_stages(beta, target_purity, feed_purity, verbose) ==
    IF beta_invalid(beta)
    THEN Raise("ValueError", "separation_factor", beta_message(beta))
    ELSE IF purity_invalid(feed_purity, target_purity)
    THEN Raise("ValueError", "purity",
               purity_message(feed_purity, target_purity))
    ELSE LET num == sep_numerator(target_purity, feed_purity)
             den == sep_denominator(target_purity, feed_purity)
         IN IF IsZero(den)
            THEN Raise("ZeroDivisionError", "float division by zero", <<>>)
            ELSE Return(kremser(FDiv(num, den), beta), verbose_lines(verbose))

(***************************************************************************)
(* verify_ree_selectivity.py: main                                         *)
(***************************************************************************)
\* a main that has returned an exit status
Exit(status) == [kind |-> "exit", status |-> status]

\* TARGET_PURITY = 0.999, FEED_PURITY = 0.10
TARGET_PURITY == Lit(999, 0 - 3)
FEED_PURITY == Lit(10, 0 - 2)

\* mutant: the industrial separation factor is 1.0
beta_unity == Lit(1, 0)

\* beta_p507 = 2.5, beta_genesis = 11000.0
beta_p507 == Lit(25, 0 - 1)
beta_genesis == Lit(11000, 0)

\* int(np.ceil(x)) of a finite x
CeilInt(x) ==
    IF x.e >= 0 THEN x.m * Pow10(x.e)
    ELSE LET p == Pow10(0 - x.e)
         IN IF x.m > 0 THEN (x.m + p - 1) \div p ELSE 0 - (IAbs(x.m) \div p)

\* max(1, int(np.ceil(stages / 0.9)))
practical_stages(stages) == IMax(1, CeilInt(NpDiv(stages, Lit(9, 0 - 1))))

\* what main does: the two stage calculations and the figures it prints for
\* the two technologies; an error of a calculation propagates
selectivity_report(stages_p507, stages_genesis) ==
    IF stages_p507.kind # "return"
    THEN [outcome |-> stages_p507, report |-> <<>>]
    ELSE IF stages_genesis.kind # "return"
    THEN [outcome |-> stages_genesis, report |-> <<>>]
    ELSE IF ~IsFin(NpDiv(stages_genesis.value, Lit(9, 0 - 1)))
    THEN [outcome |-> Raise("OverflowError", "int", <<>>), report |-> <<>>]
    ELSE IF ~IsFin(stages_p507.value)
    THEN [outcome |-> Raise("OverflowError", "int", <<>>), report |-> <<>>]
    ELSE [outcome |-> Exit(0),
          report |->
             [p507_theoretical |-> Fixed(stages_p507.value, 1),
              p507_practical |->
                  Fixed(NpDiv(stages_p507.value, Lit(9, 0 - 1)), 0),
              genesis_theoretical |-> Fixed(stages_genesis.value, 2),
              genesis_practical |-> practical_stages(stages_genesis.value),
              genesis_conclusion |-> Fixed(stages_genesis.value, 1)]]

\* main: the two calls of the calculator, then what is printed of them
selectivity_audit ==
    selectivity_report(
        calculate_theoretical_stages(beta_p507, TARGET_PURITY, FEED_PURITY,
                                     FALSE),
        calculate_theoretical_stages(beta_genesis, TARGET_PURITY,
                                     FEED_PURITY, FALSE))

(***************************************************************************)
(* verify_pfas_binding.py: calculate_relative_lifetime                     *)
(***************************************************************************)
\* R = 8.314e-3
R == Lit(8314, 0 - 6)

\* mutant: the signed energies are subtracted, abs() is not applied
delta_E_signed(binding_energy_new, binding_energy_reference) ==
    FSub(binding_energy_new, binding_energy_reference)

\* delta_E = abs_new - abs_ref
delta_E(binding_energy_new, binding_energy_reference) ==
    FSub(FAbs(binding_energy_new), FAbs(binding_energy_reference))

\* R * temperature_K
thermal_energy(temperature_K) == FMul(R, temperature_K)

calculate_relative_lifetime(binding_energy_new, binding_energy_reference, temperature_K) ==
    LET dE == delta_E(binding_energy_new, binding_energy_reference)
        rt == thermal_energy(temperature_K)
    IN IF IsZero(rt)
       THEN Raise("ZeroDivisionError", "float division by zero", <<>>)
       ELSE Return(Exp(FDiv(dE, rt)), 0)

(***************************************************************************)
(* verify_pfas_binding.py: binding_energy_to_lifetime_extension            *)
(***************************************************************************)
\* mutant: the factor is taken at 1 K
unit_temperature_K == Lit(1, 0)

\* temperature_K: float = 298.0, the default of calculate_relative_lifetime
default_temperature_K == Lit(298, 0)

binding_energy_to_lifetime_extension(binding_energy_kJ_mol, reference_binding, reference_lifetime_hours) ==
    LET relative_factor == calculate_relative_lifetime(binding_energy_kJ_mol,
                               reference_binding, default_temperature_K)
    IN IF relative_factor.kind # "return" THEN relative_factor
       ELSE Return(FMul(reference_lifetime_hours, relative_factor.value), 0)

(***************************************************************************)
(* verify_pfas_binding.py: get_fluorocatcher_data and main                 *)
(***************************************************************************)
\* the dictionary that get_fluorocatcher_data returns
get_fluorocatcher_data ==
    (<<"FC-1", "PFOA">> :> Lit(0 - 852, 0 - 1))
    @@ (<<"FC-2", "PFOA">> :> Lit(0 - 917, 0 - 1))
    @@ (<<"FC-3", "PFOA">> :> Lit(0 - 884, 0 - 1))
    @@ (<<"FC-4", "PFOA">> :> Lit(0 - 951, 0 - 1))
    @@ (<<"FC-5", "PFOA">> :> Lit(0 - 1023, 0 - 1))
    @@ (<<"FC-6", "PFOA">> :> Lit(0 - 1086, 0 - 1))
    @@ (<<"FC-7", "PFOA">> :> Lit(0 - 1152, 0 - 1))
    @@ (<<"FC-8", "PFOA">> :> Lit(0 - 1210, 0 - 1))
    @@ (<<"FC-8", "PFOS">> :> Lit(0 - 1185, 0 - 1))
    @@ (<<"FC-8", "PFHxS">> :> Lit(0 - 1053, 0 - 1))
    @@ (<<"FC-8", "PFBS">> :> Lit(0 - 952, 0 - 1))
    @@ (<<"FC-8", "PFBA">> :> Lit(0 - 887, 0 - 1))
    @@ (<<"FC-8", "GenX">> :> Lit(0 - 921, 0 - 1))

\* the strings of the dictionary's keys in the order Python compares them
StrOrder ==
    << "FC-1", "FC-2", "FC-3", "FC-4", "FC-5", "FC-6", "FC-7", "FC-8",
       "GenX", "PFBA", "PFBS", "PFHxS", "PFOA", "PFOS" >>

StrRank(str) == CHOOSE i \in 1..Len(StrOrder) : StrOrder[i] = str

\* key1 <= key2 for two (host, guest) tuples
KeyLe(key1, key2) ==
    \/ StrRank(key1[1]) < StrRank(key2[1])
    \/ key1[1] = key2[1] /\ StrRank(key1[2]) <= StrRank(key2[2])

\* sorted(keys)
RECURSIVE sorted(_)
sorted(keys) ==
    IF keys = {} THEN <<>>
    ELSE LET least == CHOOSE k \in keys : \A j \in keys : KeyLe(k, j)
         IN <<least>> \o sorted(keys \ {least})

\* mutant: the comparison with the threshold is the other way round
threshold_status_reversed(binding) ==
    IF FLt(Lit(0 - 80, 0), binding) THEN "Exceeds -80 threshold"
    ELSE "Below threshold"

\* status = "Exceeds -80 threshold" if binding < -80 else "Below threshold"
threshold_status(binding) ==
    IF FLt(binding, Lit(0 - 80, 0)) THEN "Exceeds -80 threshold"
    ELSE "Below threshold"

\* the rows of the DFT screening table
screening_rows ==
    LET fc_data == get_fluorocatcher_data
        keys == sorted(DOMAIN fc_data)
    IN [i \in 1..Len(keys) |->
           [host |-> keys[i][1], guest |-> keys[i][2],
            binding |-> Fixed(fc_data[keys[i]], 1),
            status |-> threshold_status(fc_data[keys[i]])]]

\* BE_GAC = -45.0, BE_IX = -60.0, BE_GENESIS_CONSERVATIVE = -85.0,
\* BE_GENESIS_BEST = -121.0
BE_GAC == Lit(0 - 45, 0)
BE_IX == Lit(0 - 60, 0)
BE_GENESIS_CONSERVATIVE == Lit(0 - 85, 0)
BE_GENESIS_BEST == Lit(0 - 121, 0)

\* what main does: the three lifetime calculations, at the default
\* temperature, and the figures and rows it prints; an error of a
\* calculation propagates
compliance_report(factor_ix, factor_genesis_conservative, factor_genesis_best) ==
    IF factor_ix.kind # "return"
    THEN [outcome |-> factor_ix, report |-> <<>>]
    ELSE IF factor_genesis_conservative.kind # "return"
    THEN [outcome |-> factor_genesis_conservative, report |-> <<>>]
    ELSE IF factor_genesis_best.kind # "return"
    THEN [outcome |-> factor_genesis_best, report |-> <<>>]
    ELSE [outcome |-> Exit(0),
          report |->
             [factor_ix |-> Fixed(factor_ix.value, 0),
              factor_genesis_conservative |->
                  Fixed(factor_genesis_conservative.value, 0),
              factor_genesis_best |-> Fixed(factor_genesis_best.value, 0),
              rows |-> screening_rows]]

\* main: the three calls of the calculator at the default temperature, then
\* what is printed of them and of the screening data
compliance_audit ==
    compliance_report(
        calculate_relative_lifetime(BE_IX, BE_GAC, default_temperature_K),
        calculate_relative_lifetime(BE_GENESIS_CONSERVATIVE, BE_GAC,
                                    default_temperature_K),
        calculate_relative_lifetime(BE_GENESIS_BEST, BE_GAC,
                                    default_temperature_K))

(***************************************************************************)
(* generate_all_charts.py: kremser_stages                                  *)
(***************************************************************************)
\* mutant: no early return for beta <= 1.0
kremser_stages_unguarded(beta, x_p, x_f) ==
    LET num == FMul(x_p, FSub(Lit(1, 0), x_f))
        den == FMul(x_f, FSub(Lit(1, 0), x_p))
    IN IF IsZero(den)
       THEN Raise("ZeroDivisionError", "float division by zero", <<>>)
       ELSE Return(NpDiv(Ln(FDiv(num, den)), Ln(beta)), 0)

\* mutant: the separation degree is inverted
kremser_stages_inverted(beta, x_p, x_f) ==
    IF FLe(beta, Lit(10, 0 - 1)) THEN Return(Inf(1), 0)
    ELSE LET num == FMul(x_f, FSub(Lit(1, 0), x_p))
             den == FMul(x_p, FSub(Lit(1, 0), x_f))
         IN IF IsZero(den)
            THEN Raise("ZeroDivisionError", "float division by zero", <<>>)
            ELSE Return(NpDiv(Ln(FDiv(num, den)), Ln(beta)), 0)

kremser_stages(beta, x_p, x_f) ==
    IF FLe(beta, Lit(10, 0 - 1)) THEN Return(Inf(1), 0)
    ELSE LET num == FMul(x_p, FSub(Lit(1, 0), x_f))
             den == FMul(x_f, FSub(Lit(1, 0), x_p))
         IN IF IsZero(den)
            THEN Raise("ZeroDivisionError", "float division by zero", <<>>)
            ELSE Return(NpDiv(Ln(FDiv(num, den)), Ln(beta)), 0)

\* x_p=0.999, x_f=0.10: the default purities of kremser_stages
default_x_p == Lit(999, 0 - 3)
default_x_f == Lit(10, 0 - 2)

\* 10 ** y: exact where y is a whole number
power10(y) ==
    IF IsZero(y) THEN One
    ELSE IF IsFin(y) /\ y.e >= 0 /\ y.e <= 2 THEN Round(1, y.m * Pow10(y.e))
    ELSE IF IsFin(y) /\ y.e < 0 /\ y.e > 0 - Digits
            /\ y.m % Pow10(0 - y.e) = 0
    THEN Round(1, y.m \div Pow10(0 - y.e))
    ELSE Exp(FMul(y, Ln(Lit(10, 0))))

\* the number of samples of the beta sweep
sweep_num == 1000

\* np.logspace(0, 5, 1000)[i - 1]: 10 ** of the i-th of sweep_num evenly
\* spaced exponents from 0 to 5, the last one 5 itself
beta_values(i) ==
    LET step == FDiv(FSub(Lit(5, 0), Lit(0, 0)), Lit(sweep_num - 1, 0))
    IN IF i = sweep_num THEN power10(Lit(5, 0))
       ELSE power10(FAdd(Lit(0, 0), FMul(Lit(i - 1, 0), step)))

\* OUTPUT_DIR = os.path.join(SCRIPT_DIR, 'images'), relative to the script
OUTPUT_DIR == "images"

\* os.path.join(directory, name)
path_join(directory, name) == [directory |-> directory, name |-> name]

\* os.path.basename(path)
basename(path) == path.name

\* the OUTPUT FILES that the module docstring lists
DocumentedOutputFiles ==
    { path_join("images", "separation_efficiency_curve.png"),
      path_join("images", "binding_energy_comparison.png"),
      path_join("images", "economic_impact.png") }

\* the figure generators in the order main calls them: the file each saves,
\* whether it creates the output directory itself, and main's position
\* before and after it
Generators ==
    << [file |-> "separation_efficiency_curve.png", makedirs |-> TRUE,
        at |-> "fig1", next |-> "fig2"],
       [file |-> "binding_energy_comparison.png", makedirs |-> FALSE,
        at |-> "fig2", next |-> "fig3"],
       [file |-> "economic_impact.png", makedirs |-> FALSE,
        at |-> "fig3", next |-> "fig4"],
       [file |-> "supply_chain_risk.png", makedirs |-> FALSE,
        at |-> "fig4", next |-> "report"] >>

\* genesis_values = [0.75, 0.15, 100, 1]: the Stages entry of the
\* economic-impact chart for the Janus Ligand
genesis_chart_stages == 1

(***************************************************************************)
(* The arguments the callers are modelled to pass.                         *)
(***************************************************************************)
\* the smallest positive float
Tiny == Fin(1, EMin)
\* the largest finite float
Huge == Fin(Pow10(Digits) - 1, EMax)

Betas ==
    { Lit(0 - 25, 0 - 1), Lit(0, 0), Lit(123, 0 - 7), Lit(5, 0 - 1), Lit(1, 0),
      Lit(101, 0 - 2),
      Lit(25, 0 - 1), Lit(11000, 0), Lit(998, 3), Lit(999, 3), Huge, Inf(1),
      NaN }

Purities ==
    { Lit(0 - 1, 0 - 1), Lit(0, 0), Tiny, Lit(10, 0 - 2), Lit(5, 0 - 1),
      Lit(999, 0 - 3), Lit(1, 0), Lit(15, 0 - 1), NaN }

Energies ==
    { Lit(0 - 121, 0), Lit(0 - 85, 0), Lit(0 - 45, 0), Lit(0, 0), Lit(45, 0),
      Lit(85, 0) }

Temperatures ==
    { Lit(0 - 298, 0), Lit(0, 0), Tiny, Lit(1, 0), Lit(298, 0), Huge }

Lifetimes ==
    { Lit(0 - 48, 0), Lit(0, 0), Tiny, Lit(48, 0), Huge }

(***************************************************************************)
(* The state machine: call is an invocation of a calculator with its       *)
(* arguments, drawn from the modelled arguments; outcome is what the       *)
(* invocation did, once it has run.                                        *)
(***************************************************************************)
Pending == [kind |-> "pending", err |-> "", shown |-> <<>>, value |-> NoValue, printed |-> 0]

StagesCalls ==
    { [fn |-> "calculate_theoretical_stages", beta |-> b, target_purity |-> t,
       feed_purity |-> f, verbose |-> v] :
        b \in Betas, t \in Purities, f \in Purities, v \in BOOLEAN }

LifetimeCalls ==
    { [fn |-> "calculate_relative_lifetime", binding_energy_new |-> n,
       binding_energy_reference |-> r, temperature_K |-> t] :
        n \in Energies, r \in Energies, t \in Temperatures }

ExtensionCalls ==
    { [fn |-> "binding_energy_to_lifetime_extension",
       binding_energy_kJ_mol |-> n, reference_binding |-> r,
       reference_lifetime_hours |-> h] :
        n \in Energies, r \in Energies, h \in Lifetimes }

KremserCalls ==
    { [fn |-> "kremser_stages", beta |-> b, x_p |-> p, x_f |-> f] :
        b \in Betas, p \in Purities, f \in Purities }

\* stages = np.array([kremser_stages(b) for b in beta_values])
SweepCalls ==
    { [fn |-> "kremser_stages", beta |-> beta_values(i), x_p |-> default_x_p,
       x_f |-> default_x_f, sample |-> i] : i \in 1..sweep_num }

ChartsRuns ==
    { [fn |-> "generate_all_charts.main", dir_exists |-> d] : d \in BOOLEAN }

AuditRuns ==
    { [fn |-> "verify_ree_selectivity.main"],
      [fn |-> "verify_pfas_binding.main"] }

Init ==
    /\ call \in StagesCalls \cup LifetimeCalls \cup ExtensionCalls
                \cup KremserCalls \cup SweepCalls \cup ChartsRuns
                \cup AuditRuns
    /\ outcome = Pending
    /\ pc = "start"
    /\ dir_exists = (call.fn = "generate_all_charts.main" /\ call.dir_exists)
    /\ files = {}
    /\ figures = <<>>
    /\ report = <<>>
    /\ called = <<>>
    /\ makedirs_calls = 0

StagesCall ==
    /\ call.fn = "calculate_theoretical_stages"
    /\ outcome = Pending
    /\ outcome' = calculate_theoretical_stages(call.beta, call.target_purity,
                                               call.feed_purity, call.verbose)
    /\ UNCHANGED <<call, run>>

LifetimeCall ==
    /\ call.fn = "calculate_relative_lifetime"
    /\ outcome = Pending
    /\ outcome' = calculate_relative_lifetime(call.binding_energy_new,
                                              call.binding_energy_reference,
                                              call.temperature_K)
    /\ UNCHANGED <<call, run>>

ExtensionCall ==
    /\ call.fn = "binding_energy_to_lifetime_extension"
    /\ outcome = Pending
    /\ outcome' = binding_energy_to_lifetime_extension(
                       call.binding_energy_kJ_mol, call.reference_binding,
                       call.reference_lifetime_hours)
    /\ UNCHANGED <<call, run>>

KremserCall ==
    /\ call.fn = "kremser_stages"
    /\ outcome = Pending
    /\ outcome' = kremser_stages(call.beta, call.x_p, call.x_f)
    /\ UNCHANGED <<call, run>>

(***************************************************************************)
(* generate_all_charts.py: main.  A figure generator may raise, before or  *)
(* after it has saved its file; that is the environment's choice.          *)
(***************************************************************************)
IsChartsRun == call.fn = "generate_all_charts.main"

\* mutant: main does not create the output directory
ChartsSkipMakeDirs ==
    /\ IsChartsRun /\ pc = "start"
    /\ pc' = "fig1"
    /\ UNCHANGED <<call, outcome, dir_exists, files, figures, report, called,
                   makedirs_calls>>

\* os.makedirs(OUTPUT_DIR, exist_ok=True), outside the try: an error
\* propagates out of main
ChartsMakeDirs ==
    /\ IsChartsRun /\ pc = "start"
    /\ \/ /\ dir_exists' = TRUE
          /\ makedirs_calls' = makedirs_calls + 1
          /\ pc' = "fig1"
          /\ UNCHANGED outcome
       \/ /\ ~dir_exists
          /\ outcome' = Raise("OSError", "makedirs", <<>>)
          /\ pc' = "done"
          /\ UNCHANGED <<dir_exists, makedirs_calls>>
    /\ UNCHANGED <<call, files, figures, report, called>>

\* figures.append(generate_...()) for the i-th generator of main
Generate(i) ==
    /\ IsChartsRun /\ pc = Generators[i].at
    /\ called' = Append(called, i)
    /\ LET path == path_join(OUTPUT_DIR, Generators[i].file)
           dir == dir_exists \/ Generators[i].makedirs
           made == IF Generators[i].makedirs THEN makedirs_calls + 1
                   ELSE makedirs_calls
       IN \/ /\ dir
             /\ dir_exists' = dir
             /\ makedirs_calls' = made
             /\ files' = files \cup {path}
             /\ figures' = Append(figures, path)
             /\ pc' = Generators[i].next
          \/ /\ dir
             /\ dir_exists' = dir
             /\ makedirs_calls' = made
             /\ files' = files \cup {path}
             /\ pc' = "except"
             /\ UNCHANGED figures
          \/ /\ pc' = "except"
             /\ UNCHANGED <<dir_exists, makedirs_calls, files, figures>>
    /\ UNCHANGED <<call, outcome, report>>

GenerateSeparationEfficiencyChart == Generate(1)
GenerateBindingEnergyChart == Generate(2)
GenerateEconomicImpactChart == Generate(3)
GenerateSupplyChainChart == Generate(4)

\* mutant: the error is printed and main goes on to its success report
ChartsExceptSwallowed ==
    /\ IsChartsRun /\ pc = "except"
    /\ pc' = "report"
    /\ UNCHANGED <<call, outcome, dir_exists, files, figures, report, called,
                   makedirs_calls>>

\* except Exception as e: the error is printed and main returns 1
ChartsExcept ==
    /\ IsChartsRun /\ pc = "except"
    /\ outcome' = Exit(1)
    /\ pc' = "done"
    /\ UNCHANGED <<call, dir_exists, files, figures, report, called,
                   makedirs_calls>>

\* the success report: one line per collected figure, and main returns 0
ChartsReport ==
    /\ IsChartsRun /\ pc = "report"
    /\ report' = [i \in 1..Len(figures) |-> basename(figures[i])]
    /\ outcome' = Exit(0)
    /\ pc' = "done"
    /\ UNCHANGED <<call, dir_exists, files, figures, called, makedirs_calls>>

(***************************************************************************)
(* verify_ree_selectivity.py: main, which takes no arguments               *)
(***************************************************************************)
IsAuditRun == call.fn = "verify_ree_selectivity.main"

SelectivityAuditMain ==
    /\ IsAuditRun /\ pc = "start"
    /\ \E audit \in {selectivity_audit} :
          /\ outcome' = audit.outcome
          /\ report' = audit.report
    /\ pc' = "done"
    /\ UNCHANGED <<call, dir_exists, files, figures, called, makedirs_calls>>

(***************************************************************************)
(* verify_pfas_binding.py: main, which takes no arguments                  *)
(***************************************************************************)
IsComplianceRun == call.fn = "verify_pfas_binding.main"

ComplianceAuditMain ==
    /\ IsComplianceRun /\ pc = "start"
    /\ \E audit \in {compliance_audit} :
          /\ outcome' = audit.outcome
          /\ report' = audit.report
    /\ pc' = "done"
    /\ UNCHANGED <<call, dir_exists, files, figures, called, makedirs_calls>>

Next ==
    \/ SelectivityAuditMain \/ ComplianceAuditMain
    \/ StagesCall \/ LifetimeCall \/ ExtensionCall \/ KremserCall
    \/ ChartsMakeDirs
    \/ GenerateSeparationEfficiencyChart \/ GenerateBindingEnergyChart
    \/ GenerateEconomicImpactChart \/ GenerateSupplyChainChart
    \/ ChartsExcept \/ ChartsReport

Spec == Init /\ [][Next]_vars

(***************************************************************************)
(* The claims.                                                             *)
(***************************************************************************)
IsStages == call.fn = "calculate_theoretical_stages"
IsLifetime == call.fn = "calculate_relative_lifetime"
Ran == outcome # Pending
Returned == outcome.kind = "return"

\* 0 < feed_purity < target_purity < 1 holds of the call's purities
ValidPurities ==
    /\ FLt(Zero, call.feed_purity)
    /\ FLt(call.feed_purity, call.target_purity)
    /\ FLt(call.target_purity, One)

\* the call is a stage calculation, has run, and its arguments are valid
ValidStagesRan == IsStages /\ Ran /\ FLt(One, call.beta) /\ ValidPurities

\* the audit's literals: target purity 0.999, feed purity 0.10
AuditPurities ==
    call.target_purity = Lit(999, 0 - 3) /\ call.feed_purity = Lit(10, 0 - 2)

\* lo <= x <= hi
Within(x, lo, hi) == FLe(lo, x) /\ FLe(x, hi)

\* C1: a stage calculation with beta <= 1 (beta = 1.0 and beta = 0.5
\* included) raises the ValueError about the separation factor, whatever the
\* purities are, and returns no stage count.
C1_BetaAtMostOneRaises ==
    (IsStages /\ Ran /\ FLe(call.beta, One))
        => /\ outcome.kind = "ValueError"
           /\ outcome.err = "separation_factor"
           /\ outcome.value = NoValue

\* C1 witness: the boundary beta = 1.0 with valid purities has raised.
C1_Witness ==
    /\ IsStages /\ Ran /\ call.beta = One /\ ValidPurities
    /\ outcome.kind = "ValueError"

\* C2: for beta > 1, a stage calculation whose purities violate
\* 0 < feed_purity < target_purity < 1 (feed_purity >= target_purity,
\* feed_purity <= 0 or target_purity >= 1, each boundary included) raises the
\* ValueError about the purities.
C2_PurityOrderingViolatedRaises ==
    (IsStages /\ Ran /\ FLt(One, call.beta) /\ ~ValidPurities)
        => /\ outcome.kind = "ValueError"
           /\ outcome.err = "purity"
           /\ outcome.value = NoValue

\* C2 witness: feed_purity = target_purity, both inside (0, 1), has raised.
C2_Witness ==
    /\ IsStages /\ Ran /\ FLt(One, call.beta)
    /\ call.feed_purity = call.target_purity
    /\ FLt(Zero, call.feed_purity) /\ FLt(call.target_purity, One)
    /\ outcome.kind = "ValueError"

\* C3 (as claimed): a lifetime calculation with temperature_K <= 0 raises the
\* invalid-parameter error (ValueError), for all binding energies.
C3_NonPositiveTemperatureRaises ==
    (IsLifetime /\ Ran /\ FLe(call.temperature_K, Zero))
        => outcome.kind = "ValueError"

\* C4 (as claimed): for beta > 1 and 0 < feed_purity < target_purity < 1 the
\* stage calculation raises nothing and returns a finite stage count >= 0.
C4_ValidInputsReturnFiniteNonNegative ==
    ValidStagesRan
        => /\ Returned
           /\ IsFin(outcome.value)
           /\ FLe(Zero, outcome.value)

\* C5 (as claimed): for fixed valid purities the stage count is strictly
\* decreasing in beta: for 1 < beta1 < beta2 the count at beta2 is below the
\* count at beta1.
C5_StrictlyDecreasingInBeta ==
    ValidStagesRan
        => \A beta2 \in Betas :
              FLt(call.beta, beta2)
                  => LET o2 == calculate_theoretical_stages(beta2,
                                   call.target_purity, call.feed_purity,
                                   call.verbose)
                     IN /\ Returned
                        /\ o2.kind = "return"
                        /\ FLt(o2.value, outcome.value)

\* C6 (as claimed): on valid inputs the stage calculation returns exactly
\* ln(separation_degree) / ln(beta), with separation_degree =
\* (target_purity * (1 - feed_purity)) / (feed_purity * (1 - target_purity)),
\* and nothing is rounded up or adjusted.
C6_ReturnsKremserQuotient ==
    ValidStagesRan
        => /\ Returned
           /\ outcome.value =
                 NpDiv(Ln(FDiv(FMul(call.target_purity,
                                    FSub(One, call.feed_purity)),
                               FMul(call.feed_purity,
                                    FSub(One, call.target_purity)))),
                       Ln(call.beta))

\* C7 (as amended): the stage count for beta = 2.5, target purity 0.999 and
\* feed purity 0.10 is 9.94 to within 0.1.
C7_P507StagesNearTen ==
    (IsStages /\ Ran /\ call.beta = Lit(25, 0 - 1) /\ AuditPurities)
        => /\ Returned
           /\ Within(outcome.value, Lit(984, 0 - 2), Lit(1004, 0 - 2))

\* C7 witness: the call with beta = 2.5 and the audit's purities has returned.
C7_Witness ==
    IsStages /\ Returned /\ call.beta = Lit(25, 0 - 1) /\ AuditPurities

\* C7 (as claimed): that stage count is 10.9 to within 0.1.
C7_P507StagesNearEleven ==
    (IsStages /\ Ran /\ call.beta = Lit(25, 0 - 1) /\ AuditPurities)
        => /\ Returned
           /\ Within(outcome.value, Lit(108, 0 - 1), Lit(110, 0 - 1))

\* C8 (as amended): the stage count for beta = 11000, target purity 0.999 and
\* feed purity 0.10 is 0.98 to within 0.05.
C8_JanusStagesNearOne ==
    (IsStages /\ Ran /\ call.beta = Lit(11000, 0) /\ AuditPurities)
        => /\ Returned
           /\ Within(outcome.value, Lit(93, 0 - 2), Lit(103, 0 - 2))

\* C8 witness: the call with beta = 11000 and the audit's purities has
\* returned.
C8_Witness ==
    IsStages /\ Returned /\ call.beta = Lit(11000, 0) /\ AuditPurities

\* C8 (as claimed): that stage count is 1.66 to within 0.05.
C8_JanusStagesNearOnePointSixSix ==
    (IsStages /\ Ran /\ call.beta = Lit(11000, 0) /\ AuditPurities)
        => /\ Returned
           /\ Within(outcome.value, Lit(161, 0 - 2), Lit(171, 0 - 2))

\* C9 (as claimed): for temperature_K > 0 and all binding energies the
\* lifetime calculation returns a factor > 0, and the factor is > 1 exactly
\* when the new binding energy has the larger magnitude.
C9_FactorPositiveAndAboveOneIffStronger ==
    (IsLifetime /\ Ran /\ FLt(Zero, call.temperature_K))
        => /\ Returned
           /\ FLt(Zero, outcome.value)
           /\ FLt(One, outcome.value)
                 <=> FLt(FAbs(call.binding_energy_reference),
                         FAbs(call.binding_energy_new))

\* C10 (as claimed): for temperature_K > 0, the factor of (A, B) times the
\* factor of (B, A) is 1 within floating tolerance (here 5 percent).
C10_SwappedFactorsMultiplyToOne ==
    (IsLifetime /\ Ran /\ FLt(Zero, call.temperature_K))
        => LET o2 == calculate_relative_lifetime(call.binding_energy_reference,
                         call.binding_energy_new, call.temperature_K)
           IN /\ Returned
              /\ o2.kind = "return"
              /\ Within(FMul(outcome.value, o2.value),
                        Lit(95, 0 - 2), Lit(105, 0 - 2))

\* C11 (as claimed): for temperature_K > 0 the factor depends only on the
\* magnitudes of the binding energies: the calls with (A, B), (-A, B) and
\* (A, -B) all return exp((|A| - |B|) / (8.314e-3 * T)).
C11_FactorIgnoresSigns ==
    (IsLifetime /\ Ran /\ FLt(Zero, call.temperature_K))
        => LET A == call.binding_energy_new
               B == call.binding_energy_reference
               T == call.temperature_K
               oNegA == calculate_relative_lifetime(FNeg(A), B, T)
               oNegB == calculate_relative_lifetime(A, FNeg(B), T)
               v == Exp(NpDiv(FSub(FAbs(A), FAbs(B)),
                              FMul(Lit(8314, 0 - 6), T)))
           IN /\ Returned /\ outcome.value = v
              /\ oNegA.kind = "return" /\ oNegA.value = v
              /\ oNegB.kind = "return" /\ oNegB.value = v

\* C12 (as claimed): when the new and the reference binding energy are equal
\* the lifetime calculation returns exactly 1.0, at every temperature_K > 0.
C12_EqualEnergiesGiveOne ==
    (/\ IsLifetime /\ Ran /\ FLt(Zero, call.temperature_K)
     /\ call.binding_energy_new = call.binding_energy_reference)
        => Returned /\ outcome.value = One

\* the call the audit makes for the conservative Fluorocatcher figure:
\* new = -85, reference = -45, temperature_K = 298
ConservativeCall ==
    /\ IsLifetime
    /\ call.binding_energy_new = Lit(0 - 85, 0)
    /\ call.binding_energy_reference = Lit(0 - 45, 0)
    /\ call.temperature_K = Lit(298, 0)

\* C13: the factor for new = -85, reference = -45 at 298 K is of order 1e7:
\* the exponent 40 / (8.314e-3 * 298) is 16.15 to within 0.1 and the returned
\* factor is 1.03e7 to within ten percent.
C13_FortyKilojoulesGiveTenMillion ==
    (ConservativeCall /\ Ran)
        => /\ Returned
           /\ Within(FDiv(delta_E(call.binding_energy_new,
                                  call.binding_energy_reference),
                          thermal_energy(call.temperature_K)),
                     Lit(1605, 0 - 2), Lit(1625, 0 - 2))
           /\ Within(outcome.value, Lit(927, 4), Lit(1133, 4))

\* C13 witness: that call has returned a factor above one million.
C13_Witness ==
    ConservativeCall /\ Returned /\ FLt(Lit(1, 6), outcome.value)

\* C14 (as claimed): apart from beta <= 1, a violated purity ordering and a
\* temperature_K <= 0, no arguments make a calculator raise: every other
\* call returns a value, however large or small the arguments are.
C14_NoOtherInputRaises ==
    /\ (IsStages /\ Ran /\ ~FLe(call.beta, One) /\ ValidPurities) => Returned
    /\ (IsLifetime /\ Ran /\ ~FLe(call.temperature_K, Zero)) => Returned

\* the float that a decimal numeral denotes
Value(numeral) ==
    IF numeral.k = "fin" THEN Round(numeral.m, numeral.e) ELSE numeral

\* x and y differ by at most 0.00005, or are the same infinity
SameToFourPlaces(x, y) ==
    IF IsFin(x) /\ IsFin(y)
    THEN FLe(FAbs(FSub(x, y)), Lit(5, 0 - 5))
    ELSE x = y

\* C15: the errors of the stage calculation carry the offending arguments.
\* The error raised for beta <= 1 states beta (to four decimal places), and
\* the error raised for violated purities states the feed purity and the
\* target purity that were passed, in that order.
C15_ErrorsStateOffendingInputs ==
    /\ (IsStages /\ Ran /\ FLe(call.beta, One))
          => /\ outcome.kind = "ValueError"
             /\ Len(outcome.shown) = 1
             /\ SameToFourPlaces(Value(outcome.shown[1]), call.beta)
    /\ (IsStages /\ Ran /\ FLt(One, call.beta) /\ ~ValidPurities)
          => /\ outcome.kind = "ValueError"
             /\ Len(outcome.shown) = 2
             /\ Value(outcome.shown[1]) = call.feed_purity
             /\ Value(outcome.shown[2]) = call.target_purity

\* C15 witness: a purity error has been raised for two different purities,
\* both of which the message states.
C15_Witness ==
    /\ IsStages /\ Ran /\ outcome.err = "purity"
    /\ call.feed_purity # call.target_purity
    /\ Len(outcome.shown) = 2

IsExtension == call.fn = "binding_energy_to_lifetime_extension"

\* the factor that the lifetime calculation returns for the energies of an
\* extension call at 298 K
FactorAt298 ==
    calculate_relative_lifetime(call.binding_energy_kJ_mol,
                                call.reference_binding, Lit(298, 0))

\* the target binding energy of an extension call has the larger magnitude
TargetStronger ==
    FLt(FAbs(call.reference_binding), FAbs(call.binding_energy_kJ_mol))

\* the target binding energy of an extension call has the smaller magnitude
TargetWeaker ==
    FLt(FAbs(call.binding_energy_kJ_mol), FAbs(call.reference_binding))

\* C16 (as amended): the estimate is reference_lifetime_hours times the
\* factor at 298 K; for a positive finite reference lifetime it is >= 0, at
\* least the reference lifetime when the target binding energy has the
\* larger magnitude, at most the reference lifetime when it has the smaller
\* one, and equal to it when the magnitudes are equal.
C16_EstimateScalesReferenceLifetime ==
    (IsExtension /\ Ran)
        => /\ Returned
           /\ FactorAt298.kind = "return"
           /\ outcome.value =
                 FMul(call.reference_lifetime_hours, FactorAt298.value)
           /\ (FLt(Zero, call.reference_lifetime_hours)
                  /\ IsFin(call.reference_lifetime_hours))
                 => /\ FLe(Zero, outcome.value)
                    /\ TargetStronger
                          => FLe(call.reference_lifetime_hours, outcome.value)
                    /\ TargetWeaker
                          => FLe(outcome.value, call.reference_lifetime_hours)
                    /\ (~TargetStronger /\ ~TargetWeaker)
                          => outcome.value = call.reference_lifetime_hours

\* C16 witness: an estimate above a positive reference lifetime has been
\* returned for a target of larger magnitude.
C16_Witness ==
    /\ IsExtension /\ Returned /\ TargetStronger
    /\ FLt(Zero, call.reference_lifetime_hours)
    /\ FLt(call.reference_lifetime_hours, outcome.value)

\* C16 (as claimed): the estimate is reference_lifetime_hours times the
\* factor at 298 K; for a positive reference lifetime it is > 0 and exceeds
\* the reference lifetime exactly when the target binding energy has the
\* larger magnitude.
C16_EstimatePositiveAndAboveIffStronger ==
    (IsExtension /\ Ran)
        => /\ Returned
           /\ FactorAt298.kind = "return"
           /\ outcome.value =
                 FMul(call.reference_lifetime_hours, FactorAt298.value)
           /\ FLt(Zero, call.reference_lifetime_hours)
                 => /\ FLt(Zero, outcome.value)
                    /\ FLt(call.reference_lifetime_hours, outcome.value)
                          <=> TargetStronger

\* what the call of a calculator does when it is made again with the same
\* arguments
SameCallAgain ==
    IF IsStages
    THEN calculate_theoretical_stages(call.beta, call.target_purity,
                                      call.feed_purity, call.verbose)
    ELSE calculate_relative_lifetime(call.binding_energy_new,
                                     call.binding_energy_reference,
                                     call.temperature_K)

IsKremser == call.fn = "kremser_stages"

\* C18: for beta > 1 and 0 < x_f < x_p < 1 the chart helper does what the
\* stage calculator does with target_purity = x_p and feed_purity = x_f: it
\* returns the same value (or, where the stage calculator's division fails,
\* fails in the same way).
C18_ChartHelperAgreesWithCalculator ==
    (/\ IsKremser /\ Ran /\ FLt(One, call.beta)
     /\ FLt(Zero, call.x_f) /\ FLt(call.x_f, call.x_p) /\ FLt(call.x_p, One))
        => outcome = calculate_theoretical_stages(call.beta, call.x_p,
                                                  call.x_f, FALSE)

\* C18 witness: the chart helper has returned a finite stage count for
\* beta = 2.5 and the default purities.
C18_Witness ==
    /\ IsKremser /\ Returned /\ call.beta = Lit(25, 0 - 1)
    /\ call.x_p = Lit(999, 0 - 3) /\ call.x_f = Lit(10, 0 - 2)
    /\ IsFin(outcome.value) /\ FLt(One, outcome.value)

\* the run of the chart script has returned 0
ChartsSucceeded == IsChartsRun /\ outcome = Exit(0)

\* C19 (as claimed): after a successful run of the chart script the files
\* written are the three output files that its docstring lists, under the
\* images directory, and the success report lists these figures.
C19_WritesDocumentedOutputFiles ==
    ChartsSucceeded
        => /\ files = DocumentedOutputFiles
           /\ {report[i] : i \in 1..Len(report)}
                 = {basename(f) : f \in DocumentedOutputFiles}

\* C20 (as claimed): the audit reports a single stage for the Janus Ligand:
\* the practical stage count it prints, max(1, ceil(N / 0.9)), is 1, as is
\* the stage count of its conclusions, and this is the value the
\* economic-impact chart uses for the Genesis stages.
C20_JanusNeedsSingleStage ==
    (IsAuditRun /\ outcome = Exit(0))
        => /\ report.genesis_practical = 1
           /\ report.genesis_practical = genesis_chart_stages
           /\ Value(report.genesis_conclusion) = One

\* the hosts FC-1 .. FC-8
FluorocatcherVariants ==
    {"FC-1", "FC-2", "FC-3", "FC-4", "FC-5", "FC-6", "FC-7", "FC-8"}

\* C21: every entry of get_fluorocatcher_data has a binding energy strictly
\* below -80, the hosts are exactly FC-1 .. FC-8, and every row of the DFT
\* screening table that main prints has the status 'Exceeds -80 threshold',
\* none 'Below threshold'.
C21_AllVariantsExceedThreshold ==
    (IsComplianceRun /\ pc = "done")
        => /\ outcome = Exit(0)
           /\ \A key \in DOMAIN get_fluorocatcher_data :
                 FLt(get_fluorocatcher_data[key], Lit(0 - 80, 0))
           /\ {key[1] : key \in DOMAIN get_fluorocatcher_data}
                 = FluorocatcherVariants
           /\ Len(report.rows) = Cardinality(DOMAIN get_fluorocatcher_data)
           /\ {report.rows[i].host : i \in 1..Len(report.rows)}
                 = FluorocatcherVariants
           /\ \A i \in 1..Len(report.rows) :
                 report.rows[i].status = "Exceeds -80 threshold"

\* C21 witness: main has printed the table, thirteen rows, the first one for
\* FC-1.
C21_Witness ==
    /\ IsComplianceRun /\ pc = "done"
    /\ Len(report.rows) = 13
    /\ report.rows[1].host = "FC-1"

\* C22 (as claimed): the beta test runs before the purity test: when
\* beta <= 1 and the purity ordering is violated as well, the error is the
\* one about the separation factor, which names beta, never the one about
\* the purities; and the error about the purities is raised only when
\* beta > 1.
C22_BetaTestedBeforePurities ==
    /\ (IsStages /\ Ran /\ FLe(call.beta, One) /\ ~ValidPurities)
          => /\ outcome.err = "separation_factor"
             /\ outcome.shown = beta_message(call.beta)
    /\ (IsStages /\ Ran /\ outcome.err = "purity") => FLt(One, call.beta)

\* the call is the one for a sample of the beta sweep
IsSweepSample == IsKremser /\ "sample" \in DOMAIN call

\* C23 (as claimed): the chart helper never raises: it returns +infinity
\* exactly when beta <= 1 and a finite value otherwise, whatever the purities
\* are; and in the beta sweep the first sample is beta = 1 and gives
\* infinity, while every later sample has beta > 1 and gives a finite count.
C23_ChartHelperNeverRaises ==
    (IsKremser /\ Ran)
        => /\ Returned
           /\ outcome.value = Inf(1) <=> FLe(call.beta, One)
           /\ ~FLe(call.beta, One) => IsFin(outcome.value)
           /\ IsSweepSample
                 => IF call.sample = 1
                    THEN call.beta = One /\ outcome.value = Inf(1)
                    ELSE FLt(One, call.beta) /\ IsFin(outcome.value)

\* C23 (as amended): called with its default purities, the chart helper
\* never raises: it returns +infinity exactly when beta <= 1 and a finite
\* value for every other beta that is not nan; and in the beta sweep the
\* first sample is beta = 1 and gives infinity, while every later sample
\* has beta > 1, up to 100,000 for the last, and gives a finite count.
C23_ChartHelperNeverRaisesOnDefaults ==
    (/\ IsKremser /\ Ran /\ ~IsNaN(call.beta)
     /\ call.x_p = default_x_p /\ call.x_f = default_x_f)
        => /\ Returned
           /\ outcome.value = Inf(1) <=> FLe(call.beta, One)
           /\ ~FLe(call.beta, One) => IsFin(outcome.value)
           /\ IsSweepSample
                 => /\ IF call.sample = 1
                       THEN call.beta = One /\ outcome.value = Inf(1)
                       ELSE FLt(One, call.beta) /\ IsFin(outcome.value)
                    /\ call.sample = sweep_num => call.beta = Lit(1, 5)

\* C23 witness: the first sample of the sweep has given infinity.
C23_Witness ==
    /\ IsSweepSample /\ Returned /\ call.sample = 1
    /\ outcome.value = Inf(1)

\* the run of the chart script is over: main has returned or its error has
\* propagated
ChartsOver == IsChartsRun /\ pc = "done"

\* a figure generator that main called has raised
GeneratorRaised == Len(called) > Len(figures)

\* C24: main calls the four figure generators in the order
\* separation-efficiency, binding-energy, economic-impact, supply-chain; it
\* returns 0 exactly when all four have completed; and once a generator has
\* raised no later generator is called, the success report is not printed
\* and main returns 1, the exception does not propagate.
C24_GeneratorsRunInOrderUntilOneRaises ==
    IsChartsRun
        => /\ \A i \in 1..Len(called) : called[i] = i
           /\ Len(called) <= 4
           /\ Len(figures) <= Len(called) /\ Len(called) <= Len(figures) + 1
           /\ \A i \in 1..Len(figures) :
                 figures[i] = path_join(OUTPUT_DIR, Generators[i].file)
           /\ <<Generators[1].file, Generators[2].file, Generators[3].file,
                Generators[4].file>>
                 = <<"separation_efficiency_curve.png",
                     "binding_energy_comparison.png", "economic_impact.png",
                     "supply_chain_risk.png">>
           /\ outcome = Exit(0) <=> (pc = "done" /\ Len(figures) = 4)
           /\ GeneratorRaised
                 => /\ report = <<>>
                    /\ pc \in {"except", "done"}
                    /\ pc = "done" => outcome = Exit(1)

\* C24 witness: the run is over after the third generator raised: main has
\* returned 1 and the fourth was not called.
C24_Witness ==
    /\ ChartsOver /\ outcome = Exit(1)
    /\ called = <<1, 2, 3>> /\ Len(figures) = 2

\* C25: in every run of the chart script the output directory is created
\* before any figure is saved: when a generator is about to run, and
\* whenever a file has been saved, an os.makedirs call of main has succeeded
\* and the directory exists, although only the first generator creates the
\* directory itself.
C25_DirectoryCreatedBeforeSaving ==
    IsChartsRun
        => /\ (pc \in {"fig1", "fig2", "fig3", "fig4"} \/ files # {})
                 => makedirs_calls >= 1 /\ dir_exists
           /\ {i \in 1..4 : Generators[i].makedirs} = {1}

\* C25 witness: all four files have been saved in a run that started without
\* the output directory.
C25_Witness ==
    /\ IsChartsRun /\ ~call.dir_exists
    /\ Cardinality(files) = 4 /\ makedirs_calls = 2

\* a run of one of the two audit scripts is over
AuditOver == (IsAuditRun \/ IsComplianceRun) /\ pc = "done"

\* C26: both audit mains call the calculators with literal arguments that
\* meet the preconditions (beta 2.5 and 11000 above 1, 0 < 0.10 < 0.999 < 1,
\* the default temperature 298 above 0), so no call raises and each main
\* runs to its end and returns 0.
C26_AuditMainsReturnZero ==
    AuditOver
        => /\ beta_p507 = Lit(25, 0 - 1) /\ ~beta_invalid(beta_p507)
           /\ beta_genesis = Lit(11000, 0) /\ ~beta_invalid(beta_genesis)
           /\ FEED_PURITY = Lit(10, 0 - 2)
           /\ TARGET_PURITY = Lit(999, 0 - 3)
           /\ ~purity_invalid(FEED_PURITY, TARGET_PURITY)
           /\ default_temperature_K = Lit(298, 0)
           /\ FLt(Zero, default_temperature_K)
           /\ outcome = Exit(0)
           /\ report # <<>>

\* C26 witness: the run of the selectivity audit is over and main has
\* returned 0 with both stage counts reported.
C26_Witness ==
    /\ IsAuditRun /\ pc = "done" /\ outcome = Exit(0)
    /\ FLt(Lit(9, 0), Value(report.p507_theoretical))
    /\ FLt(Value(report.genesis_theoretical), Lit(2, 0))
====
